---- MODULE Spec2Model ----
(***************************************************************************)
(* A state-machine model of torchgems/train_spatial_master.py:             *)
(*   - verify_spatial_master_config (the partition validator),             *)
(*   - the flat parameter / gradient buffers of the two replicas,          *)
(*   - send_recv_params / send_recv_grads and the four isend/irecv         *)
(*     helpers, over a point-to-point transport with one tag,              *)
(*   - run_step_allreduce, one process per rank of a model-parallel group. *)
(*   - the aliasing of the replicas' parameters to the flat buffers,       *)
(*   - run_step, the sequential mode.                                      *)
(***************************************************************************)
EXTENDS Integers, Sequences, FiniteSets, TLC

\* ------------------------------------------------------------------ bounds
\* Largest mp_size given to the validator.
MaxCfgMp == 9
\* Largest value of one buffer element before an exchange.
MaxVal == 1
\* Largest number of micro-parts of a step.
MaxParts == 2
\* Largest self.replications of a sequential step.
MaxReps == 3
\* Largest self.batch_size.
MaxBatch == 4
\* Consecutive calls of run_step_allreduce on one rank.
MaxSteps == 2
\* Writes to the flat buffers or the parameters after construction.
MaxWrites == 1

\* Group sizes of the paired-call scenarios (8 is the spec's example). mp_size is
\* even: the rank pairing r <-> mp_size - 1 - r is total only then.
HandshakeMpSizes == {2, 4, 8}
\* Group sizes of a whole run_step_allreduce.
StepMpSizes == {2, 4}

VARIABLES
  cfg,        \* the arguments of verify_spatial_master_config
  verdict,    \* "pending", "ok", or the exception the validator raised
  mp_size,    \* self.mp_size
  parts,      \* self.parts
  batch_size, \* self.batch_size: the samples of one replica's share of a batch
  replications, \* self.replications
  shapes,     \* shapes[r][m]: the shapes of the parameters of replica m, in order
  alias,      \* alias[r][kind][m]: the slice each parameter's data / grad views
  index_size, \* index_size[r]: the running offset of update_model_*_loc
  odd,        \* odd_iteration, as passed on every rank to its first call
  step,       \* step[r]: the calls of run_step_allreduce rank r has returned from
  reversed,   \* the role-assignment scenario's test double: swap the two halves
  pc,         \* pc[r]: where rank r is in its call
  ret,        \* ret[r]: where send_recv_* returns to
  idx,        \* idx[r]: the loop variable i
  buf,        \* buf[r]: the four flat buffers and the local flat_grads_recv
  req,        \* req[r]: the handles req1, req2
  sendq,      \* sendq[<<s, d>>]: isends of s to d not yet matched, in order
  recvq,      \* recvq[<<s, d>>]: irecvs of d from s not yet matched, in order
  trace,      \* trace[r]: what rank r has called so far, in order
  dirty,      \* dirty[r]: compute was queued on the device since the last synchronize
  y_list,     \* y_list[r]
  acc,        \* acc[r]: the accumulators loss and corrects
  snap        \* snap[r]: the buffers of rank r when its call (or phase) began

vars == <<cfg, verdict, mp_size, parts, batch_size, replications, shapes, alias,
          index_size, odd, step, reversed, pc, ret, idx, buf, req,
          sendq, recvq, trace, dirty, y_list, acc, snap>>

\* ------------------------------------------------------- partition validator

RECURSIVE IsPowerTwo(_)
\* n is 1, 2, 4, 8, ...
IsPowerTwo(n) ==
  IF n < 1 THEN FALSE
  ELSE IF n = 1 THEN TRUE
  ELSE IF n % 2 = 1 THEN FALSE
  ELSE IsPowerTwo(n \div 2)

\* The largest k with k * k <= n, for n in 0..16.
ISqrt(n) == CHOOSE k \in 0..4 : k * k <= n /\ (k + 1) * (k + 1) > n

\* The tiles along one side of the image.
TilesPerSide(slice_method, n) ==
  IF slice_method = "square" THEN ISqrt(n) ELSE n

\* verify_spatial_config of torchgems.train_spatial: every partition count and
\* the resulting tile size, int(image_size / tiles per side), are powers of two.
GenericValid(c) ==
  \A k \in 1..Len(c.num_spatial_parts_list) :
    LET n == c.num_spatial_parts_list[k]
    IN  /\ IsPowerTwo(n)
        /\ IsPowerTwo(c.image_size \div TilesPerSide(c.slice_method, n))

MasterAssertStrict(mp, spatial_part_size) == mp > 2 * spatial_part_size

\* assert mp_size >= 2 * (spatial_part_size)
MasterAssert(mp, spatial_part_size) == mp >= 2 * spatial_part_size

\* What one call of verify_spatial_master_config(c) ends with.
VerifyResult(c) ==
  IF Len(c.num_spatial_parts_list) = 0 THEN "IndexError"
  ELSE IF ~GenericValid(c) THEN "GenericAssertionError"
  ELSE IF ~MasterAssert(c.mp_size, c.num_spatial_parts_list[1])
       THEN "MasterAssertionError"
  ELSE "ok"

SliceMethods == {"square", "vertical", "horizontal"}
ImageSizes == {8, 12, 16}
PartCounts == {1, 2, 3, 4}
PartLists == {<<>>} \cup {<<a>> : a \in PartCounts}
                    \cup {<<a, b>> : a \in PartCounts, b \in {1, 3}}

Configs ==
  [slice_method : SliceMethods, image_size : ImageSizes,
   num_spatial_parts_list : PartLists, spatial_size : {1, 2},
   mp_size : 1..MaxCfgMp]

\* ------------------------------------------------------------ ranks, buffers

Ranks == 0..(mp_size - 1)

LocalRankNotInverse(r, m) == r

\* The local rank of world rank r in replica m: replica 2 is mapped inversely.
LocalRank(r, m) == IF m = 1 THEN r ELSE mp_size - 1 - r

\* The element count of the partition a replica holds at local rank l.
PartSize(l) == 1 + (l % 2)

\* self.model1_size, self.model2_size on rank r.
ModelSize(r, m) == PartSize(LocalRank(r, m))

Zeros(n) == [k \in 1..n |-> 0]

Fill(n, v) == [k \in 1..n |-> v]

\* The buffers right after __init__: torch.zeros of the replica's size.
InitBufs(r) ==
  [flat_params_model1 |-> Zeros(ModelSize(r, 1)),
   flat_params_model2 |-> Zeros(ModelSize(r, 2)),
   flat_grads_model1 |-> Zeros(ModelSize(r, 1)),
   flat_grads_model2 |-> Zeros(ModelSize(r, 2)),
   flat_grads_recv |-> <<>>]

Vectors(n) == [1..n -> 0..MaxVal]

NoReq == [op |-> "none", done |-> FALSE]

PendingReq(op) == [op |-> op, done |-> FALSE]

Ev(e, m, i, b, peer, data, r) ==
  [e |-> e, m |-> m, i |-> i, buf |-> b, peer |-> peer, data |-> data,
   synced |-> ~dirty[r]]

Log(r, ev) == trace' = [trace EXCEPT ![r] = Append(@, ev)]

\* The parameters of a replica and the slices of the flat buffers they view.

RECURSIVE Numel(_)
\* params.data.numel(): the product of the dimensions.
Numel(shape) == IF shape = <<>> THEN 1 ELSE Head(shape) * Numel(Tail(shape))

RECURSIVE GetModelParameterSize(_)
\* size += param.numel() over the parameters.
GetModelParameterSize(ps) ==
  IF ps = <<>> THEN 0 ELSE Numel(Head(ps)) + GetModelParameterSize(Tail(ps))

LastIndexShort(index, shape) == index + Numel(shape) - 1

\* last_index = index_size + params.data.numel()
LastIndex(index, shape) == index + Numel(shape)

\* flat[index_size:last_index].view(params.shape)
SliceView(index, shape) ==
  [lo |-> index, hi |-> LastIndex(index, shape), shape |-> shape]

\* The flat buffer a parameter's data (kind "params") or grad (kind "grads") views.
FlatBufOf(kind, m) ==
  IF kind = "params"
  THEN (IF m = 1 THEN "flat_params_model1" ELSE "flat_params_model2")
  ELSE (IF m = 1 THEN "flat_grads_model1" ELSE "flat_grads_model2")

NoAlias == [kind \in {"params", "grads"} |-> [m \in {1, 2} |-> <<>>]]

\* Every replica partition as one parameter of shape (ModelSize,).
OneParamShapes == [r \in Ranks |-> [m \in {1, 2} |-> << <<ModelSize(r, m)>> >>]]

\* What __init__ makes of OneParamShapes.
OneParamAlias ==
  [r \in Ranks |->
    [kind \in {"params", "grads"} |->
      [m \in {1, 2} |-> << SliceView(0, <<ModelSize(r, m)>>) >>]]]

\* ------------------------------------------------------------- the transport

Msg(slot, kind, b, data) == [slot |-> slot, kind |-> kind, buf |-> b, data |-> data]

Rcv(slot, kind, b) == [slot |-> slot, kind |-> kind, buf |-> b]

\* dist.isend(tensor, dst, tag=0) on rank r: the handle is pending, the message queued.
Isend(r, slot, kind, b, dst) ==
  /\ sendq' = [sendq EXCEPT ![<<r, dst>>] = Append(@, Msg(slot, kind, b, buf[r][b]))]
  /\ req' = [req EXCEPT ![r][slot] = PendingReq("send")]
  /\ UNCHANGED recvq

\* dist.irecv(tensor, src, tag=0) on rank r.
Irecv(r, slot, kind, b, src) ==
  /\ recvq' = [recvq EXCEPT ![<<src, r>>] = Append(@, Rcv(slot, kind, b))]
  /\ req' = [req EXCEPT ![r][slot] = PendingReq("recv")]
  /\ UNCHANGED sendq

\* The transport matches the oldest isend of s to d with the oldest irecv of d
\* from s (one tag, in order per pair), copies the data and completes both handles.
Deliver(s, d) ==
  /\ sendq[<<s, d>>] # <<>>
  /\ recvq[<<s, d>>] # <<>>
  /\ LET m == Head(sendq[<<s, d>>])
         rc == Head(recvq[<<s, d>>])
     IN  /\ buf' = [buf EXCEPT ![d][rc.buf] = m.data]
         /\ req' = [q \in DOMAIN req |->
                      [k \in {1, 2} |->
                        IF (q = s /\ k = m.slot) \/ (q = d /\ k = rc.slot)
                        THEN [req[q][k] EXCEPT !.done = TRUE]
                        ELSE req[q][k]]]
  /\ sendq' = [sendq EXCEPT ![<<s, d>>] = Tail(@)]
  /\ recvq' = [recvq EXCEPT ![<<s, d>>] = Tail(@)]
  /\ UNCHANGED <<cfg, verdict, mp_size, parts, batch_size, replications, shapes,
                 alias, index_size, odd, step,
                 reversed, pc, ret, idx,
                 trace, dirty, y_list, acc, snap>>

\* ---------------------------------------------------------------- helpers

\* odd_iteration of the call rank r is in: the caller alternates it from call to call.
OddIteration(r) == IF step[r] % 2 = 0 THEN odd ELSE ~odd

Goto(r, l) == pc' = [pc EXCEPT ![r] = l]

\* What no action after construction changes.
Setup == <<cfg, mp_size, parts, batch_size, replications, shapes, alias,
           index_size, odd, step, reversed>>

\* A configuration the validator accepts for a group of mp ranks.
CfgFor(mp, spatial_part_size) ==
  [slice_method |-> "vertical", image_size |-> 8,
   num_spatial_parts_list |-> <<spatial_part_size>>, spatial_size |-> 1,
   mp_size |-> mp]

\* ------------------------------------------------ verify_spatial_master_config

VerifyConfig ==
  /\ verdict = "pending"
  /\ verdict' = VerifyResult(cfg)
  /\ UNCHANGED <<Setup, pc, ret, idx, buf, req, sendq, recvq, trace, dirty,
                 y_list, acc, snap>>

\* ------------------------------------------------------- parameter exchange

\* send_recv_rank = self.mp_size - 1 - local_rank
OffByOneRank(r) == (mp_size - r) % mp_size

SendRecvRank(r) == mp_size - 1 - r

AlwaysSendsFirst(r) == TRUE

\* self.local_rank < int(self.mp_size / 2)
LowerHalf(r) == r < mp_size \div 2

\* The rank issues its send before its receive in send_recv_params.
ParamsSendFirst(r) == IF reversed THEN ~LowerHalf(r) ELSE LowerHalf(r)

SendParamsBufSwapped(o) ==
  IF o THEN "flat_params_model1" ELSE "flat_params_model2"

\* The tensor of send_params_model.
SendParamsBuf(o) == IF o THEN "flat_params_model2" ELSE "flat_params_model1"

RecvParamsBufSame(o) ==
  IF o THEN "flat_params_model2" ELSE "flat_params_model1"

\* The tensor of recv_params_model.
RecvParamsBuf(o) == IF o THEN "flat_params_model1" ELSE "flat_params_model2"

\* req<slot> = self.send_params_model(send_rank, odd_iteration)
SendParamsModel(r, slot, send_rank) ==
  /\ Isend(r, slot, "params", SendParamsBuf(OddIteration(r)), send_rank)
  /\ Log(r, Ev("isend_params", 0, slot, SendParamsBuf(OddIteration(r)), send_rank,
              buf[r][SendParamsBuf(OddIteration(r))], r))

\* req<slot> = self.recv_params_model(recv_rank, odd_iteration)
RecvParamsModel(r, slot, recv_rank) ==
  /\ Irecv(r, slot, "params", RecvParamsBuf(OddIteration(r)), recv_rank)
  /\ Log(r, Ev("irecv_params", 0, slot, RecvParamsBuf(OddIteration(r)), recv_rank, <<>>, r))

\* send_recv_params up to and including torch.cuda.synchronize().
SRP_Enter(r) ==
  /\ pc[r] = "srp_enter"
  /\ dirty' = [dirty EXCEPT ![r] = FALSE]
  /\ trace' = [trace EXCEPT ![r] =
                 @ \o <<Ev("send_recv_params", 0, 0, "", SendRecvRank(r), <<>>, r),
                        Ev("synchronize", 0, 0, "", r, <<>>, r)>>]
  /\ Goto(r, "srp_issue1")
  /\ UNCHANGED <<Setup, verdict, ret, idx, buf, req, sendq, recvq, y_list, acc, snap>>

\* req1 = ...
SRP_Issue1(r) ==
  /\ pc[r] = "srp_issue1"
  /\ IF ParamsSendFirst(r)
     THEN SendParamsModel(r, 1, SendRecvRank(r))
     ELSE RecvParamsModel(r, 1, SendRecvRank(r))
  /\ Goto(r, "srp_issue2")
  /\ UNCHANGED <<Setup, verdict, ret, idx, buf, dirty, y_list, acc, snap>>

\* req2 = ...
SRP_Issue2(r) ==
  /\ pc[r] = "srp_issue2"
  /\ IF ParamsSendFirst(r)
     THEN RecvParamsModel(r, 2, SendRecvRank(r))
     ELSE SendParamsModel(r, 2, SendRecvRank(r))
  /\ Goto(r, "srp_wait1")
  /\ UNCHANGED <<Setup, verdict, ret, idx, buf, dirty, y_list, acc, snap>>

\* req<slot>.wait(): blocks until the handle has completed.
Wait(r, slot, from, to) ==
  /\ pc[r] = from
  /\ req[r][slot].done
  /\ Log(r, Ev("wait", 0, slot, "", r, <<>>, r))
  /\ Goto(r, to)

\* req1.wait()
SRP_Wait1(r) ==
  /\ Wait(r, 1, "srp_wait1", "srp_wait2")
  /\ UNCHANGED <<Setup, verdict, ret, idx, buf, req, sendq, recvq, dirty,
                 y_list, acc, snap>>

\* req2.wait(), and the return to the caller.
SRP_Wait2(r) ==
  /\ Wait(r, 2, "srp_wait2", ret[r])
  /\ UNCHANGED <<Setup, verdict, ret, idx, buf, req, sendq, recvq, dirty,
                 y_list, acc, snap>>

\* -------------------------------------------------------- gradient exchange

\* The tensor of send_grads_model.
SendGradsBuf(o) == IF o THEN "flat_grads_model2" ELSE "flat_grads_model1"

\* The buffer the received gradients are added to.
AccGradsBuf(o) == IF o THEN "flat_grads_model1" ELSE "flat_grads_model2"

\* The size of flat_grads_recv: model1_size if odd_iteration else model2_size.
RecvGradsSize(r, o) == IF o THEN ModelSize(r, 1) ELSE ModelSize(r, 2)

Overwritten(target, received) == received

\* target += received, element by element.
Accumulated(target, received) ==
  [k \in 1..Len(target) |-> target[k] + received[k]]

\* req<slot> = self.send_grads_model(send_rank, odd_iteration)
SendGradsModel(r, slot, send_rank) ==
  /\ Isend(r, slot, "grads", SendGradsBuf(OddIteration(r)), send_rank)
  /\ Log(r, Ev("isend_grads", 0, slot, SendGradsBuf(OddIteration(r)), send_rank,
              buf[r][SendGradsBuf(OddIteration(r))], r))

\* req<slot> = self.recv_grads_model(flat_grads_recv, recv_rank)
RecvGradsModel(r, slot, recv_rank) ==
  /\ Irecv(r, slot, "grads", "flat_grads_recv", recv_rank)
  /\ Log(r, Ev("irecv_grads", 0, slot, "flat_grads_recv", recv_rank, <<>>, r))

\* flat_grads_model1 += flat_grads_recv if odd_iteration, else flat_grads_model2 += ...
AccumulateGrads(r) ==
  /\ buf' = [buf EXCEPT ![r][AccGradsBuf(OddIteration(r))] =
               Accumulated(@, buf[r].flat_grads_recv)]
  /\ Log(r, Ev("accumulate", 0, 0, AccGradsBuf(OddIteration(r)), r, buf[r].flat_grads_recv, r))

\* send_recv_grads up to and including torch.cuda.synchronize().
SRG_Enter(r) ==
  /\ pc[r] = "srg_enter"
  /\ buf' = [buf EXCEPT ![r].flat_grads_recv = Zeros(RecvGradsSize(r, OddIteration(r)))]
  /\ dirty' = [dirty EXCEPT ![r] = FALSE]
  /\ trace' = [trace EXCEPT ![r] =
                 @ \o <<Ev("send_recv_grads", 0, 0, "", SendRecvRank(r), <<>>, r),
                        Ev("synchronize", 0, 0, "", r, <<>>, r)>>]
  /\ Goto(r, "srg_issue1")
  /\ UNCHANGED <<Setup, verdict, ret, idx, req, sendq, recvq, y_list, acc, snap>>

SRG_Issue1ByHalf(r) ==
  /\ pc[r] = "srg_issue1"
  /\ IF LowerHalf(r)
     THEN SendGradsModel(r, 1, SendRecvRank(r))
     ELSE RecvGradsModel(r, 1, SendRecvRank(r))
  /\ Goto(r, "srg_issue2")
  /\ UNCHANGED <<Setup, verdict, ret, idx, buf, dirty, y_list, acc, snap>>

\* req1 = self.send_grads_model(...), in both branches of the rank test.
SRG_Issue1(r) ==
  /\ pc[r] = "srg_issue1"
  /\ SendGradsModel(r, 1, SendRecvRank(r))
  /\ Goto(r, "srg_issue2")
  /\ UNCHANGED <<Setup, verdict, ret, idx, buf, dirty, y_list, acc, snap>>

\* req2 = self.recv_grads_model(...), in both branches of the rank test.
SRG_Issue2(r) ==
  /\ pc[r] = "srg_issue2"
  /\ RecvGradsModel(r, 2, SendRecvRank(r))
  /\ Goto(r, "srg_wait1")
  /\ UNCHANGED <<Setup, verdict, ret, idx, buf, dirty, y_list, acc, snap>>

\* req1.wait()
SRG_Wait1(r) ==
  /\ Wait(r, 1, "srg_wait1", "srg_wait2")
  /\ UNCHANGED <<Setup, verdict, ret, idx, buf, req, sendq, recvq, dirty,
                 y_list, acc, snap>>

\* req2.wait()
SRG_Wait2(r) ==
  /\ Wait(r, 2, "srg_wait2", "srg_acc")
  /\ UNCHANGED <<Setup, verdict, ret, idx, buf, req, sendq, recvq, dirty,
                 y_list, acc, snap>>

\* The accumulation, and the return to the caller.
SRG_Accumulate(r) ==
  /\ pc[r] = "srg_acc"
  /\ AccumulateGrads(r)
  /\ Goto(r, ret[r])
  /\ UNCHANGED <<Setup, verdict, ret, idx, req, sendq, recvq, dirty, y_list,
                 acc, snap>>

\* ------------------------------------------------------ paired-call scenarios

\* Ranks r0 and mp_size - 1 - r0 call `entry`; the other ranks stay out of it.
\* The buffers of kind `free` hold any values, the others a fixed pattern.
InitPair(entry, free, rev) ==
  /\ mp_size \in HandshakeMpSizes
  /\ cfg = CfgFor(mp_size, 1)
  /\ verdict = VerifyResult(cfg)
  /\ verdict = "ok"
  /\ parts = 1
  /\ batch_size = 1
  /\ replications = 1
  /\ shapes = OneParamShapes
  /\ alias = OneParamAlias
  /\ index_size = [r \in Ranks |-> 0]
  /\ odd \in BOOLEAN
  /\ step = [r \in Ranks |-> 0]
  /\ reversed \in rev
  /\ \E r0 \in 0..((mp_size - 1) \div 2) :
       pc = [r \in Ranks |-> IF r \in {r0, mp_size - 1 - r0} THEN entry ELSE "idle"]
  /\ ret = [r \in Ranks |-> "done"]
  /\ idx = [r \in Ranks |-> 0]
  /\ \E v \in [{r \in Ranks : pc[r] # "idle"} \X {1, 2} -> Vectors(2)] :
       buf = [r \in Ranks |->
               IF pc[r] = "idle" THEN InitBufs(r)
               ELSE LET f(m) == SubSeq(v[<<r, m>>], 1, ModelSize(r, m))
                        c(m) == Fill(ModelSize(r, m), m)
                    IN  [flat_params_model1 |-> IF free = "params" THEN f(1) ELSE c(1),
                         flat_params_model2 |-> IF free = "params" THEN f(2) ELSE c(2),
                         flat_grads_model1 |-> IF free = "grads" THEN f(1) ELSE c(1),
                         flat_grads_model2 |-> IF free = "grads" THEN f(2) ELSE c(2),
                         flat_grads_recv |-> <<>>]]
  /\ req = [r \in Ranks |-> [k \in {1, 2} |-> NoReq]]
  /\ sendq = [p \in Ranks \X Ranks |-> <<>>]
  /\ recvq = [p \in Ranks \X Ranks |-> <<>>]
  /\ trace = [r \in Ranks |-> <<>>]
  /\ dirty = [r \in Ranks |-> TRUE]
  /\ y_list = [r \in Ranks |-> <<>>]
  /\ acc = [r \in Ranks |-> [loss |-> 0, corrects |-> 0]]
  /\ snap = buf

InitParams == InitPair("srp_enter", "params", {FALSE})

NextParams ==
  \/ \E r \in Ranks : SRP_Enter(r)
  \/ \E r \in Ranks : SRP_Issue1(r)
  \/ \E r \in Ranks : SRP_Issue2(r)
  \/ \E r \in Ranks : SRP_Wait1(r)
  \/ \E r \in Ranks : SRP_Wait2(r)
  \/ \E s \in Ranks, d \in Ranks : Deliver(s, d)

\* Paired calls of send_recv_params on ranks r and mp_size - 1 - r.
SpecParams == InitParams /\ [][NextParams]_vars

InitGrads == InitPair("srg_enter", "grads", {FALSE})

NextGrads ==
  \/ \E r \in Ranks : SRG_Enter(r)
  \/ \E r \in Ranks : SRG_Issue1(r)
  \/ \E r \in Ranks : SRG_Issue2(r)
  \/ \E r \in Ranks : SRG_Wait1(r)
  \/ \E r \in Ranks : SRG_Wait2(r)
  \/ \E r \in Ranks : SRG_Accumulate(r)
  \/ \E s \in Ranks, d \in Ranks : Deliver(s, d)

\* Paired calls of send_recv_grads on ranks r and mp_size - 1 - r.
SpecGrads == InitGrads /\ [][NextGrads]_vars

InitHandshake == InitPair("srp_enter", "params", BOOLEAN)

\* The same, with the role assignment as in the code or reversed.
SpecHandshake == InitHandshake /\ [][NextParams]_vars /\ WF_vars(NextParams)

\* --------------------------------------------------------- run_step_allreduce

FirstReplicaFixed(o) == 1

\* tm1: train_model2 if odd_iteration else train_model1.
FirstReplica(o) == IF o THEN 2 ELSE 1

\* tm2: train_model1 if odd_iteration else train_model2.
SecondReplica(o) == IF o THEN 1 ELSE 2

\* The replica rank r runs in phase ph: tm1 in the first phase, tm2 in the second.
ReplicaOf(r, ph) ==
  IF ph = 1 THEN FirstReplica(OddIteration(r)) ELSE SecondReplica(OddIteration(r))

EdgeIsRankZero(r, m) == LocalRank(r, m) = 0

EveryRankIsEdge(r, m) == TRUE

\* tm.local_rank == self.mp_size - 1
EdgeRank(r, m) == LocalRank(r, m) = mp_size - 1

\* The spatial parts of the first split: num_spatial_parts_list[0].
SpatialPartSize == cfg.num_spatial_parts_list[1]

\* split_size: the spatial parts share split 0, every later rank is a split.
SplitSize == mp_size - SpatialPartSize + 1

\* split_rank of the rank with local rank l.
SplitRank(l) == IF l < SpatialPartSize THEN 0 ELSE l - SpatialPartSize + 1

TerminalAlways(r, m) == TRUE

\* tm.split_rank == tm.split_size - 1
Terminal(r, m) == SplitRank(LocalRank(r, m)) = SplitSize - 1

\* temp_y.item() of forward_pass of replica m, part i, on rank r.
FwdLoss(r, m, i) == 100 * (r + 1) + 10 * m + i

\* temp_correct.item() of the same call.
FwdCorrect(r, m, i) == 1000 + 100 * (r + 1) + 10 * m + i

\* What backward_pass of part i on rank r adds to every gradient of its replica.
GradStep(r, i) == r + 1

GradsBufOfOther(m) == IF m = 1 THEN "flat_grads_model2" ELSE "flat_grads_model1"

\* The gradient buffer of replica m.
GradsBufOf(m) == IF m = 1 THEN "flat_grads_model1" ELSE "flat_grads_model2"

\* The rank computed first in the second phase and then overwritten:
\* mp_size - 1 if odd_iteration else tm2.local_rank.
OverwrittenRank(r) == IF OddIteration(r) THEN mp_size - 1 ELSE LocalRank(r, 2)

\* recv_rank = send_rank = self.mp_size - 1 - self.local_rank: the assignment that
\* takes effect on the edge rank.
EdgePartner(r) == mp_size - 1 - r

\* Entry: inputs to the device, parts_size, y_list = [], loss = corrects = 0, tm1, tm2.
RSA_Enter(r) ==
  /\ pc[r] = "enter"
  /\ y_list' = [y_list EXCEPT ![r] = <<>>]
  /\ acc' = [acc EXCEPT ![r] = [loss |-> 0, corrects |-> 0]]
  /\ idx' = [idx EXCEPT ![r] = 0]
  /\ Log(r, Ev("run_step_allreduce", FirstReplica(OddIteration(r)), 0, "", r, <<>>, r))
  /\ Goto(r, IF EdgeRank(r, FirstReplica(OddIteration(r))) THEN "p1_recv" ELSE "p1_fwd")
  /\ UNCHANGED <<Setup, verdict, ret, buf, req, sendq, recvq, dirty, snap>>

\* Edge rank, first phase: req1 = self.recv_params_model(recv_rank, odd_iteration).
P1_Recv(r) ==
  /\ pc[r] = "p1_recv"
  /\ RecvParamsModel(r, 1, EdgePartner(r))
  /\ Goto(r, "p1_recv_wait")
  /\ UNCHANGED <<Setup, verdict, ret, idx, buf, dirty, y_list, acc, snap>>

\* req1.wait()
P1_RecvWait(r) ==
  /\ Wait(r, 1, "p1_recv_wait", "p1_fwd")
  /\ UNCHANGED <<Setup, verdict, ret, idx, buf, req, sendq, recvq, dirty,
                 y_list, acc, snap>>

\* parts_size = int(self.batch_size / self.parts)
PartsSize == batch_size \div parts

\* One turn of the forward loop of phase ph on data_x[start:end], start = i * parts_size,
\* end = (i + 1) * parts_size, and what follows the loop.
Forward(r, ph) ==
  LET m == ReplicaOf(r, ph)
      i == idx[r]
      bwd == IF ph = 1 THEN "p1_bwd" ELSE "p2_bwd"
  IN  /\ pc[r] = (IF ph = 1 THEN "p1_fwd" ELSE "p2_fwd")
      /\ y_list' = [y_list EXCEPT ![r] =
                      Append(@, [m |-> m, i |-> i, y |-> FwdLoss(r, m, i)])]
      /\ acc' = [acc EXCEPT ![r] =
                   IF Terminal(r, m)
                   THEN [loss |-> @.loss + FwdLoss(r, m, i),
                         corrects |-> @.corrects + FwdCorrect(r, m, i)]
                   ELSE @]
      /\ dirty' = [dirty EXCEPT ![r] = TRUE]
      /\ Log(r, Ev("forward_pass", m, i, "", r,
                  <<i * PartsSize, (i + 1) * PartsSize>>, r))
      /\ IF i + 1 < parts
         THEN /\ idx' = [idx EXCEPT ![r] = i + 1]
              /\ UNCHANGED <<pc, ret>>
         ELSE /\ idx' = [idx EXCEPT ![r] = 0]
              /\ IF EdgeRank(r, m)
                 THEN Goto(r, bwd) /\ UNCHANGED ret
                 ELSE /\ Goto(r, IF ph = 1 THEN "srp_enter" ELSE "srg_enter")
                      /\ ret' = [ret EXCEPT ![r] = bwd]
      /\ UNCHANGED <<Setup, verdict, buf, req, sendq, recvq, snap>>

\* One turn of the backward loop of phase ph, and what follows the loop.
Backward(r, ph) ==
  LET m == ReplicaOf(r, ph)
      i == idx[r]
      y == y_list[r][i + 1]
      after == IF ph = 1 THEN "p2_begin" ELSE "done"
      send == IF ph = 1 THEN "p1_send" ELSE "p2_send"
  IN  /\ pc[r] = (IF ph = 1 THEN "p1_bwd" ELSE "p2_bwd")
      /\ buf' = [buf EXCEPT ![r][GradsBufOf(m)] =
                   [k \in 1..Len(@) |-> @[k] + GradStep(r, i)]]
      /\ dirty' = [dirty EXCEPT ![r] = TRUE]
      /\ Log(r, Ev("backward_pass", m, i, "", r, <<y.m, y.i>>, r))
      /\ IF i + 1 < parts
         THEN /\ idx' = [idx EXCEPT ![r] = i + 1]
              /\ UNCHANGED pc
         ELSE /\ idx' = [idx EXCEPT ![r] = 0]
              /\ Goto(r, IF EdgeRank(r, m) THEN send ELSE after)
      /\ UNCHANGED <<Setup, verdict, ret, req, sendq, recvq, y_list, acc, snap>>

\* Edge rank, first phase: req1 = self.send_params_model(send_rank, odd_iteration).
P1_Send(r) ==
  /\ pc[r] = "p1_send"
  /\ SendParamsModel(r, 1, EdgePartner(r))
  /\ Goto(r, "p1_send_wait")
  /\ UNCHANGED <<Setup, verdict, ret, idx, buf, dirty, y_list, acc, snap>>

\* req1.wait()
P1_SendWait(r) ==
  /\ Wait(r, 1, "p1_send_wait", "p2_begin")
  /\ UNCHANGED <<Setup, verdict, ret, idx, buf, req, sendq, recvq, dirty,
                 y_list, acc, snap>>

P2_BeginKeepsYList(r) ==
  /\ pc[r] = "p2_begin"
  /\ snap' = [snap EXCEPT ![r] = buf[r]]
  /\ Log(r, Ev("second_replica", SecondReplica(OddIteration(r)), 0, "", r, <<>>, r))
  /\ Goto(r, IF EdgeRank(r, SecondReplica(OddIteration(r))) THEN "p2_recv" ELSE "p2_fwd")
  /\ UNCHANGED <<Setup, verdict, ret, idx, buf, req, sendq, recvq, dirty, acc,
                 y_list>>

\* The second phase begins: the other half of the batch, y_list = [].
P2_Begin(r) ==
  /\ pc[r] = "p2_begin"
  /\ y_list' = [y_list EXCEPT ![r] = <<>>]
  /\ snap' = [snap EXCEPT ![r] = buf[r]]
  /\ Log(r, Ev("second_replica", SecondReplica(OddIteration(r)), 0, "", r, <<>>, r))
  /\ Goto(r, IF EdgeRank(r, SecondReplica(OddIteration(r))) THEN "p2_recv" ELSE "p2_fwd")
  /\ UNCHANGED <<Setup, verdict, ret, idx, buf, req, sendq, recvq, dirty, acc>>

\* Edge rank, second phase: flat_grads_recv = zeros, req1 = self.recv_grads_model(...).
P2_Recv(r) ==
  /\ pc[r] = "p2_recv"
  /\ buf' = [buf EXCEPT ![r].flat_grads_recv = Zeros(RecvGradsSize(r, OddIteration(r)))]
  /\ RecvGradsModel(r, 1, EdgePartner(r))
  /\ Goto(r, "p2_recv_wait")
  /\ UNCHANGED <<Setup, verdict, ret, idx, dirty, y_list, acc, snap>>

\* req1.wait()
P2_RecvWait(r) ==
  /\ Wait(r, 1, "p2_recv_wait", "p2_acc")
  /\ UNCHANGED <<Setup, verdict, ret, idx, buf, req, sendq, recvq, dirty,
                 y_list, acc, snap>>

P2_NoAccumulate(r) ==
  /\ pc[r] = "p2_acc"
  /\ Goto(r, "p2_fwd")
  /\ UNCHANGED <<Setup, verdict, ret, idx, buf, req, sendq, recvq, trace, dirty,
                 y_list, acc, snap>>

\* flat_grads_model1 += flat_grads_recv if odd_iteration, else flat_grads_model2 += ...
P2_Accumulate(r) ==
  /\ pc[r] = "p2_acc"
  /\ AccumulateGrads(r)
  /\ Goto(r, "p2_fwd")
  /\ UNCHANGED <<Setup, verdict, ret, idx, req, sendq, recvq, dirty, y_list,
                 acc, snap>>

\* Edge rank, second phase: req1 = self.send_grads_model(send_rank, odd_iteration).
P2_Send(r) ==
  /\ pc[r] = "p2_send"
  /\ SendGradsModel(r, 1, EdgePartner(r))
  /\ Goto(r, "p2_send_wait")
  /\ UNCHANGED <<Setup, verdict, ret, idx, buf, dirty, y_list, acc, snap>>

\* req1.wait(), then return loss, corrects.
P2_SendWait(r) ==
  /\ Wait(r, 1, "p2_send_wait", "done")
  /\ UNCHANGED <<Setup, verdict, ret, idx, buf, req, sendq, recvq, dirty,
                 y_list, acc, snap>>

\* The buffers of rank r at some point of training.
StepBufs(r) ==
  [flat_params_model1 |-> Fill(ModelSize(r, 1), 10 * (r + 1) + 1),
   flat_params_model2 |-> Fill(ModelSize(r, 2), 10 * (r + 1) + 2),
   flat_grads_model1 |-> Zeros(ModelSize(r, 1)),
   flat_grads_model2 |-> Zeros(ModelSize(r, 2)),
   flat_grads_recv |-> <<>>]

\* Every rank of a validated group calls run_step_allreduce with the same
\* odd_iteration.
Init ==
  /\ mp_size \in StepMpSizes
  /\ cfg = CfgFor(mp_size, mp_size \div 2)
  /\ verdict = VerifyResult(cfg)
  /\ verdict = "ok"
  /\ parts \in 1..MaxParts
  /\ batch_size = parts
  /\ replications = 1
  /\ shapes = OneParamShapes
  /\ alias = OneParamAlias
  /\ index_size = [r \in Ranks |-> 0]
  /\ odd \in BOOLEAN
  /\ step = [r \in Ranks |-> 0]
  /\ reversed = FALSE
  /\ pc = [r \in Ranks |-> "enter"]
  /\ ret = [r \in Ranks |-> "done"]
  /\ idx = [r \in Ranks |-> 0]
  /\ buf = [r \in Ranks |-> StepBufs(r)]
  /\ req = [r \in Ranks |-> [k \in {1, 2} |-> NoReq]]
  /\ sendq = [p \in Ranks \X Ranks |-> <<>>]
  /\ recvq = [p \in Ranks \X Ranks |-> <<>>]
  /\ trace = [r \in Ranks |-> <<>>]
  /\ dirty = [r \in Ranks |-> FALSE]
  /\ y_list = [r \in Ranks |-> <<>>]
  /\ acc = [r \in Ranks |-> [loss |-> 0, corrects |-> 0]]
  /\ snap = buf

Next ==
  \/ \E r \in Ranks : RSA_Enter(r)
  \/ \E r \in Ranks : P1_Recv(r)
  \/ \E r \in Ranks : P1_RecvWait(r)
  \/ \E r \in Ranks, ph \in {1, 2} : Forward(r, ph)
  \/ \E r \in Ranks : SRP_Enter(r)
  \/ \E r \in Ranks : SRP_Issue1(r)
  \/ \E r \in Ranks : SRP_Issue2(r)
  \/ \E r \in Ranks : SRP_Wait1(r)
  \/ \E r \in Ranks : SRP_Wait2(r)
  \/ \E r \in Ranks, ph \in {1, 2} : Backward(r, ph)
  \/ \E r \in Ranks : P1_Send(r)
  \/ \E r \in Ranks : P1_SendWait(r)
  \/ \E r \in Ranks : P2_Begin(r)
  \/ \E r \in Ranks : P2_Recv(r)
  \/ \E r \in Ranks : P2_RecvWait(r)
  \/ \E r \in Ranks : P2_Accumulate(r)
  \/ \E r \in Ranks : SRG_Enter(r)
  \/ \E r \in Ranks : SRG_Issue1(r)
  \/ \E r \in Ranks : SRG_Issue2(r)
  \/ \E r \in Ranks : SRG_Wait1(r)
  \/ \E r \in Ranks : SRG_Wait2(r)
  \/ \E r \in Ranks : SRG_Accumulate(r)
  \/ \E r \in Ranks : P2_Send(r)
  \/ \E r \in Ranks : P2_SendWait(r)
  \/ \E s \in Ranks, d \in Ranks : Deliver(s, d)

\* One run_step_allreduce on every rank of the group.
Spec == Init /\ [][Next]_vars

\* The same, when no rank that can take a step and no message that can be
\* delivered waits forever: forward_pass and backward_pass return, the transport
\* delivers.
SpecFair == Init /\ [][Next]_vars /\ WF_vars(Next)

\* ------------------------------------------------------------- micro-parts

\* Both ranks of a group of 2 call run_step_allreduce, for every batch_size that
\* is at least parts.
InitSlices ==
  /\ mp_size = 2
  /\ cfg = CfgFor(mp_size, 1)
  /\ verdict = VerifyResult(cfg)
  /\ verdict = "ok"
  /\ parts \in 1..MaxParts
  /\ batch_size \in parts..MaxBatch
  /\ replications = 1
  /\ shapes = OneParamShapes
  /\ alias = OneParamAlias
  /\ index_size = [r \in Ranks |-> 0]
  /\ odd \in BOOLEAN
  /\ step = [r \in Ranks |-> 0]
  /\ reversed = FALSE
  /\ pc = [r \in Ranks |-> "enter"]
  /\ ret = [r \in Ranks |-> "done"]
  /\ idx = [r \in Ranks |-> 0]
  /\ buf = [r \in Ranks |-> StepBufs(r)]
  /\ req = [r \in Ranks |-> [k \in {1, 2} |-> NoReq]]
  /\ sendq = [p \in Ranks \X Ranks |-> <<>>]
  /\ recvq = [p \in Ranks \X Ranks |-> <<>>]
  /\ trace = [r \in Ranks |-> <<>>]
  /\ dirty = [r \in Ranks |-> FALSE]
  /\ y_list = [r \in Ranks |-> <<>>]
  /\ acc = [r \in Ranks |-> [loss |-> 0, corrects |-> 0]]
  /\ snap = buf

\* One run_step_allreduce on both ranks, any batch_size.
SpecSlices == InitSlices /\ [][Next]_vars

\* --------------------------------------------------------- consecutive steps

\* The training loop calls run_step_allreduce again, with the other parity.
NextCall(r) ==
  /\ pc[r] = "done"
  /\ step[r] + 1 < MaxSteps
  /\ step' = [step EXCEPT ![r] = @ + 1]
  /\ Goto(r, "enter")
  /\ UNCHANGED <<cfg, verdict, mp_size, parts, batch_size, replications, shapes,
                 alias, index_size, odd, reversed, ret, idx, buf, req, sendq,
                 recvq, trace, dirty, y_list, acc, snap>>

\* Steps of one micro-part.
InitSteps == Init /\ parts = 1

NextSteps ==
  \/ Next
  \/ \E r \in Ranks : NextCall(r)

\* MaxSteps calls of run_step_allreduce on every rank, the parity alternating.
SpecSteps == InitSteps /\ [][NextSteps]_vars

\* ------------------------------------------------------- flat-buffer aliasing

\* The parameter lists a replica is built from ((3,4),(5,) is the spec's example).
ShapeLists ==
  { << <<3, 4>>, <<5>> >>, << <<5>> >>, << <<2, 2>>, <<1>>, <<3>> >>,
    << <<2>>, <<2, 1, 2>> >> }

\* model1_size, model2_size and the four torch.zeros buffers.
B_Alloc(r) ==
  /\ pc[r] = "build"
  /\ buf' = [buf EXCEPT ![r] =
               [flat_params_model1 |-> Zeros(GetModelParameterSize(shapes[r][1])),
                flat_params_model2 |-> Zeros(GetModelParameterSize(shapes[r][2])),
                flat_grads_model1 |-> Zeros(GetModelParameterSize(shapes[r][1])),
                flat_grads_model2 |-> Zeros(GetModelParameterSize(shapes[r][2])),
                flat_grads_recv |-> <<>>]]
  /\ alias' = [alias EXCEPT ![r] = NoAlias]
  /\ index_size' = [index_size EXCEPT ![r] = 0]
  /\ idx' = [idx EXCEPT ![r] = 0]
  /\ Goto(r, "params_loc1")
  /\ UNCHANGED <<cfg, verdict, mp_size, parts, batch_size, replications, shapes,
                 odd, step, reversed, ret, req, sendq, recvq, trace, dirty, y_list,
                 acc, snap>>

\* One turn of the loop of update_model_params_loc / update_model_grads_loc over
\* the parameters of replica m, and the return after the last.
UpdateLoc(r, kind, m, from, to) ==
  LET ps == shapes[r][m]
      shape == ps[idx[r] + 1]
  IN  /\ pc[r] = from
      /\ alias' = [alias EXCEPT ![r][kind][m] = Append(@, SliceView(index_size[r], shape))]
      /\ IF idx[r] + 1 < Len(ps)
         THEN /\ index_size' = [index_size EXCEPT ![r] = LastIndex(@, shape)]
              /\ idx' = [idx EXCEPT ![r] = @ + 1]
              /\ UNCHANGED pc
         ELSE /\ index_size' = [index_size EXCEPT ![r] = 0]
              /\ idx' = [idx EXCEPT ![r] = 0]
              /\ Goto(r, to)
      /\ UNCHANGED <<cfg, verdict, mp_size, parts, batch_size, replications,
                     shapes, odd, step, reversed, ret, buf, req, sendq, recvq, trace,
                     dirty, y_list, acc, snap>>

\* self.update_model_params_loc(model_gen1.models, self.flat_params_model1)
B_ParamsLoc1(r) == UpdateLoc(r, "params", 1, "params_loc1", "params_loc2")

\* self.update_model_params_loc(model_gen2.models, self.flat_params_model2)
B_ParamsLoc2(r) == UpdateLoc(r, "params", 2, "params_loc2", "grads_loc1")

\* self.update_model_grads_loc(model_gen1.models, self.flat_grads_model1)
B_GradsLoc1(r) == UpdateLoc(r, "grads", 1, "grads_loc1", "grads_loc2")

\* self.update_model_grads_loc(model_gen2.models, self.flat_grads_model2)
B_GradsLoc2(r) == UpdateLoc(r, "grads", 2, "grads_loc2", "built")

\* Element j (row-major) of the data / grad of parameter k of replica m: the view
\* reads the flat buffer's storage.
ReadParam(r, kind, m, k, j) == buf[r][FlatBufOf(kind, m)][alias[r][kind][m][k].lo + j + 1]

\* A write of v at index i of a flat buffer.
W_Flat(r) ==
  /\ pc[r] = "built"
  /\ Len(trace[r]) < MaxWrites
  /\ \E kind \in {"params", "grads"}, m \in {1, 2}, v \in 1..MaxVal :
       \E i \in 0..(Len(buf[r][FlatBufOf(kind, m)]) - 1) :
         /\ buf' = [buf EXCEPT ![r][FlatBufOf(kind, m)][i + 1] = v]
         /\ Log(r, Ev("write_flat", m, i, FlatBufOf(kind, m), r, <<kind, v>>, r))
  /\ UNCHANGED <<Setup, verdict, pc, ret, idx, req, sendq, recvq, dirty, y_list,
                 acc, snap>>

\* A write of v at element j of the data / grad of parameter k: the view writes
\* the flat buffer's storage.
W_Param(r) ==
  /\ pc[r] = "built"
  /\ Len(trace[r]) < MaxWrites
  /\ \E kind \in {"params", "grads"}, m \in {1, 2}, v \in 1..MaxVal :
       \E k \in 1..Len(alias[r][kind][m]) :
         \E j \in 0..(Numel(alias[r][kind][m][k].shape) - 1) :
           /\ buf' = [buf EXCEPT ![r][FlatBufOf(kind, m)][alias[r][kind][m][k].lo + j + 1] = v]
           /\ Log(r, Ev("write_param", m, k, FlatBufOf(kind, m), r, <<kind, j, v>>, r))
  /\ UNCHANGED <<Setup, verdict, pc, ret, idx, req, sendq, recvq, dirty, y_list,
                 acc, snap>>

RECURSIVE ModelParametersFrom(_, _, _)
\* torch.cat of param.data.clone().detach().view(-1) over the parameters from the
\* k-th on.
ModelParametersFrom(r, m, k) ==
  IF k > Len(alias[r]["params"][m]) THEN <<>>
  ELSE [j \in 1..Numel(alias[r]["params"][m][k].shape) |->
          ReadParam(r, "params", m, k, j - 1)]
       \o ModelParametersFrom(r, m, k + 1)

\* model_parameters(model_gen<m>): the parameters of the replica as one flat tensor.
ModelParameters(r, m) == ModelParametersFrom(r, m, 1)

RECURSIVE CopyParams(_, _, _, _, _, _)
\* The loop of update_model_paramters from the k-th parameter on, index_size =
\* index: param.data.copy_(flat_params[index_size:last_index].view(param.shape))
\* writes the storage param.data views, the flat buffer b.
CopyParams(b, views, ps, flat_params, k, index) ==
  IF k > Len(ps) THEN b
  ELSE CopyParams([i \in 1..Len(b) |->
                     IF views[k].lo < i /\ i <= views[k].hi
                     THEN flat_params[index + (i - views[k].lo)]
                     ELSE b[i]],
                  views, ps, flat_params, k + 1, LastIndex(index, ps[k]))

\* The flat tensors of n elements given to update_model_paramters: one value
\* throughout, or v + 1, v + 2, ..., v + n.
FlatParamsInputs(n) ==
  {Fill(n, v) : v \in 0..MaxVal} \cup {[k \in 1..n |-> v + k] : v \in 0..MaxVal}

\* update_model_paramters(model_gen<m>, flat_params): every parameter of the
\* replica is overwritten, through its view, with its slice of flat_params.
UpdateModelParamters(r) ==
  /\ pc[r] = "built"
  /\ Len(trace[r]) < MaxWrites
  /\ \E m \in {1, 2} :
       \E flat_params \in FlatParamsInputs(GetModelParameterSize(shapes[r][m])) :
         /\ buf' = [buf EXCEPT ![r][FlatBufOf("params", m)] =
                      CopyParams(@, alias[r]["params"][m], shapes[r][m],
                                 flat_params, 1, 0)]
         /\ Log(r, Ev("update_model_paramters", m, 0, FlatBufOf("params", m), r,
                     flat_params, r))
  /\ UNCHANGED <<Setup, verdict, pc, ret, idx, req, sendq, recvq, dirty, y_list,
                 acc, snap>>

\* Rank 0 constructs the master over two replicas with any of the parameter lists.
InitBuild ==
  /\ mp_size = 2
  /\ cfg = CfgFor(mp_size, 1)
  /\ verdict = VerifyResult(cfg)
  /\ verdict = "ok"
  /\ parts = 1
  /\ batch_size = 1
  /\ replications = 1
  /\ \E s1 \in ShapeLists, s2 \in ShapeLists :
       shapes = [r \in Ranks |-> IF r = 0 THEN [m \in {1, 2} |-> IF m = 1 THEN s1 ELSE s2]
                                 ELSE OneParamShapes[r]]
  /\ alias = [r \in Ranks |-> IF r = 0 THEN NoAlias ELSE OneParamAlias[r]]
  /\ index_size = [r \in Ranks |-> 0]
  /\ odd = FALSE
  /\ step = [r \in Ranks |-> 0]
  /\ reversed = FALSE
  /\ pc = [r \in Ranks |-> IF r = 0 THEN "build" ELSE "idle"]
  /\ ret = [r \in Ranks |-> "done"]
  /\ idx = [r \in Ranks |-> 0]
  /\ buf = [r \in Ranks |-> InitBufs(r)]
  /\ req = [r \in Ranks |-> [k \in {1, 2} |-> NoReq]]
  /\ sendq = [p \in Ranks \X Ranks |-> <<>>]
  /\ recvq = [p \in Ranks \X Ranks |-> <<>>]
  /\ trace = [r \in Ranks |-> <<>>]
  /\ dirty = [r \in Ranks |-> FALSE]
  /\ y_list = [r \in Ranks |-> <<>>]
  /\ acc = [r \in Ranks |-> [loss |-> 0, corrects |-> 0]]
  /\ snap = buf

NextBuild ==
  \/ \E r \in Ranks : B_Alloc(r)
  \/ \E r \in Ranks : B_ParamsLoc1(r)
  \/ \E r \in Ranks : B_ParamsLoc2(r)
  \/ \E r \in Ranks : B_GradsLoc1(r)
  \/ \E r \in Ranks : B_GradsLoc2(r)
  \/ \E r \in Ranks : W_Flat(r)
  \/ \E r \in Ranks : W_Param(r)
  \/ \E r \in Ranks : UpdateModelParamters(r)

\* The construction of the flat buffers, then writes through either name and calls
\* of update_model_paramters.
SpecBuild == InitBuild /\ [][NextBuild]_vars

\* ------------------------------------------------------------------ run_step

\* temp_loss of train_model<m>.run_step on the slice that begins at sample lo.
RunLoss(r, m, lo) == 100 * (r + 1) + 10 * m + lo

\* temp_correct of the same call.
RunCorrect(r, m, lo) == 1000 + 100 * (r + 1) + 10 * m + lo

\* temp_loss, temp_correct = self.train_model<m>.run_step(inputs[lo:hi], labels[lo:hi]);
\* loss += temp_loss; correct += temp_correct
RunReplica(r, m, lo, hi) ==
  /\ acc' = [acc EXCEPT ![r] = [loss |-> @.loss + RunLoss(r, m, lo),
                                corrects |-> @.corrects + RunCorrect(r, m, lo)]]
  /\ dirty' = [dirty EXCEPT ![r] = TRUE]
  /\ Log(r, Ev("run_step", m, 0, "", r, <<lo, hi>>, r))

\* Replica 1 on inputs[: batch_size].
RS_First(r) ==
  /\ pc[r] = "rs_first"
  /\ RunReplica(r, 1, 0, batch_size)
  /\ Goto(r, "rs_second")
  /\ UNCHANGED <<Setup, verdict, ret, idx, buf, req, sendq, recvq, y_list, snap>>

\* Replica 2 on inputs[batch_size : 2 * batch_size].
RS_Second(r) ==
  /\ pc[r] = "rs_second"
  /\ RunReplica(r, 2, batch_size, 2 * batch_size)
  /\ Goto(r, "rs_sync")
  /\ UNCHANGED <<Setup, verdict, ret, idx, buf, req, sendq, recvq, y_list, snap>>

\* torch.cuda.synchronize(), and the entry of the loop over range(replications - 1).
RS_Sync(r) ==
  /\ pc[r] = "rs_sync"
  /\ dirty' = [dirty EXCEPT ![r] = FALSE]
  /\ Log(r, Ev("synchronize", 0, 0, "", r, <<>>, r))
  /\ idx' = [idx EXCEPT ![r] = 0]
  /\ Goto(r, IF 0 < replications - 1 THEN "rs_loop1" ELSE "done")
  /\ UNCHANGED <<Setup, verdict, ret, buf, req, sendq, recvq, y_list, acc, snap>>

\* index = 2 * times + 2
LoopIndex(times) == 2 * times + 2

\* Replica 1 on inputs[index * batch_size : (index + 1) * batch_size].
RS_Loop1(r) ==
  /\ pc[r] = "rs_loop1"
  /\ RunReplica(r, 1, LoopIndex(idx[r]) * batch_size,
                (LoopIndex(idx[r]) + 1) * batch_size)
  /\ Goto(r, "rs_loop2")
  /\ UNCHANGED <<Setup, verdict, ret, idx, buf, req, sendq, recvq, y_list, snap>>

\* Replica 2 on inputs[(index + 1) * batch_size : (index + 2) * batch_size], and
\* the next turn of the loop or return loss, correct.
RS_Loop2(r) ==
  /\ pc[r] = "rs_loop2"
  /\ RunReplica(r, 2, (LoopIndex(idx[r]) + 1) * batch_size,
                (LoopIndex(idx[r]) + 2) * batch_size)
  /\ idx' = [idx EXCEPT ![r] = @ + 1]
  /\ Goto(r, IF idx[r] + 1 < replications - 1 THEN "rs_loop1" ELSE "done")
  /\ UNCHANGED <<Setup, verdict, ret, buf, req, sendq, recvq, y_list, snap>>

\* Both ranks of a group of 2 call run_step; loss, correct = 0, 0.
InitRunStep ==
  /\ mp_size = 2
  /\ cfg = CfgFor(mp_size, 1)
  /\ verdict = VerifyResult(cfg)
  /\ verdict = "ok"
  /\ parts = 1
  /\ batch_size \in 1..MaxBatch
  /\ replications \in 1..MaxReps
  /\ shapes = OneParamShapes
  /\ alias = OneParamAlias
  /\ index_size = [r \in Ranks |-> 0]
  /\ odd = FALSE
  /\ step = [r \in Ranks |-> 0]
  /\ reversed = FALSE
  /\ pc = [r \in Ranks |-> "rs_first"]
  /\ ret = [r \in Ranks |-> "done"]
  /\ idx = [r \in Ranks |-> 0]
  /\ buf = [r \in Ranks |-> StepBufs(r)]
  /\ req = [r \in Ranks |-> [k \in {1, 2} |-> NoReq]]
  /\ sendq = [p \in Ranks \X Ranks |-> <<>>]
  /\ recvq = [p \in Ranks \X Ranks |-> <<>>]
  /\ trace = [r \in Ranks |-> <<>>]
  /\ dirty = [r \in Ranks |-> FALSE]
  /\ y_list = [r \in Ranks |-> <<>>]
  /\ acc = [r \in Ranks |-> [loss |-> 0, corrects |-> 0]]
  /\ snap = buf

NextRunStep ==
  \/ \E r \in Ranks : RS_First(r)
  \/ \E r \in Ranks : RS_Second(r)
  \/ \E r \in Ranks : RS_Sync(r)
  \/ \E r \in Ranks : RS_Loop1(r)
  \/ \E r \in Ranks : RS_Loop2(r)

\* One run_step (sequential mode) on every rank.
SpecRunStep == InitRunStep /\ [][NextRunStep]_vars

\* --------------------------------------------------------------- validation

InitConfig ==
  /\ cfg \in Configs
  /\ verdict = "pending"
  /\ mp_size = cfg.mp_size
  /\ parts = 1
  /\ batch_size = 1
  /\ replications = 1
  /\ shapes = OneParamShapes
  /\ alias = OneParamAlias
  /\ index_size = [r \in Ranks |-> 0]
  /\ odd = FALSE
  /\ step = [r \in Ranks |-> 0]
  /\ reversed = FALSE
  /\ pc = [r \in Ranks |-> "idle"]
  /\ ret = [r \in Ranks |-> "done"]
  /\ idx = [r \in Ranks |-> 0]
  /\ buf = [r \in Ranks |-> InitBufs(r)]
  /\ req = [r \in Ranks |-> [k \in {1, 2} |-> NoReq]]
  /\ sendq = [p \in Ranks \X Ranks |-> <<>>]
  /\ recvq = [p \in Ranks \X Ranks |-> <<>>]
  /\ trace = [r \in Ranks |-> <<>>]
  /\ dirty = [r \in Ranks |-> FALSE]
  /\ y_list = [r \in Ranks |-> <<>>]
  /\ acc = [r \in Ranks |-> [loss |-> 0, corrects |-> 0]]
  /\ snap = buf

\* The validator, called once on any arguments.
SpecConfig == InitConfig /\ [][VerifyConfig]_vars

\* ------------------------------------------------------------------ claims

\* The ranks that take part in the scenario.
Active == {r \in Ranks : pc[r] # "idle"}

AllReturned == \A r \in Ranks : pc[r] \in {"idle", "done"}

IsPrefix(a, b) == Len(a) <= Len(b) /\ \A k \in 1..Len(a) : a[k] = b[k]

\* The calls of a trace: the name and the part or handle number of each event.
Calls(t) == [k \in 1..Len(t) |-> <<t[k].e, t[k].i>>]

\* C1: verify_spatial_master_config runs the generic validation first and then
\* raises the master assertion exactly when mp_size < 2 * num_spatial_parts_list[0]:
\* mp_size = 2k - 1 with k spatial parts fails, mp_size = 2k passes when the generic
\* validation passes, every accepted configuration has mp_size >= 2k, and the call
\* leaves every other piece of state as it was.
C1_MasterAssertion ==
  (verdict # "pending" /\ Len(cfg.num_spatial_parts_list) >= 1) =>
    LET k == cfg.num_spatial_parts_list[1]
        generic == \A j \in 1..Len(cfg.num_spatial_parts_list) :
                     /\ IsPowerTwo(cfg.num_spatial_parts_list[j])
                     /\ IsPowerTwo(cfg.image_size \div
                          TilesPerSide(cfg.slice_method, cfg.num_spatial_parts_list[j]))
    IN  /\ ~generic => verdict = "GenericAssertionError"
        /\ (verdict = "MasterAssertionError") <=> (generic /\ cfg.mp_size < 2 * k)
        /\ cfg.mp_size = 2 * k - 1 => verdict # "ok"
        /\ (generic /\ cfg.mp_size = 2 * k) => verdict = "ok"
        /\ verdict = "ok" => cfg.mp_size >= 2 * k
        /\ mp_size = cfg.mp_size
        /\ \A r \in Ranks : pc[r] = "idle" /\ buf[r] = InitBufs(r) /\ trace[r] = <<>>

\* A generically valid configuration with mp_size = 2k - 1 was rejected.
C1_Witness ==
  /\ verdict = "MasterAssertionError"
  /\ cfg.num_spatial_parts_list = <<2>>
  /\ cfg.mp_size = 3

\* C2: in send_recv_params a rank of the lower half (local_rank < mp_size/2) issues
\* its send and then its receive, a rank of the upper half its receive and then its
\* send; both are issued before either handle is waited on, and the call returns only
\* after both handles have completed.
C2_RoleOrder ==
  \A r \in Active :
    /\ IsPrefix(Calls(trace[r]),
                IF 2 * r < mp_size
                THEN << <<"send_recv_params", 0>>, <<"synchronize", 0>>,
                        <<"isend_params", 1>>, <<"irecv_params", 2>>,
                        <<"wait", 1>>, <<"wait", 2>> >>
                ELSE << <<"send_recv_params", 0>>, <<"synchronize", 0>>,
                        <<"irecv_params", 1>>, <<"isend_params", 2>>,
                        <<"wait", 1>>, <<"wait", 2>> >>)
    /\ pc[r] = "done" =>
         /\ Len(trace[r]) = 6
         /\ req[r][1].done /\ req[r][2].done

\* For mp_size = 8, ranks 3 (send first) and 4 (receive first) have both returned.
C2_Witness ==
  /\ mp_size = 8
  /\ pc[3] = "done" /\ pc[4] = "done"
  /\ trace[3][3].e = "isend_params" /\ trace[4][3].e = "irecv_params"

\* C3: after paired calls of send_recv_params on r and mp_size - 1 - r have both
\* returned, with odd = FALSE each rank's flat_params_model2 is its partner's
\* flat_params_model1 of before the transfer, with odd = TRUE each rank's
\* flat_params_model1 is its partner's earlier flat_params_model2; the buffer sent
\* and both gradient buffers are unchanged.
C3_ParamsExchanged ==
  \A r \in Active :
    LET p == mp_size - 1 - r
    IN  (pc[r] = "done" /\ pc[p] = "done") =>
          /\ ~odd => /\ buf[r].flat_params_model2 = snap[p].flat_params_model1
                     /\ buf[r].flat_params_model1 = snap[r].flat_params_model1
          /\ odd => /\ buf[r].flat_params_model1 = snap[p].flat_params_model2
                    /\ buf[r].flat_params_model2 = snap[r].flat_params_model2
          /\ buf[r].flat_grads_model1 = snap[r].flat_grads_model1
          /\ buf[r].flat_grads_model2 = snap[r].flat_grads_model2

\* Both ranks returned from an even call that changed a receiving buffer.
C3_Witness ==
  \E r \in Active :
    /\ pc[r] = "done" /\ pc[mp_size - 1 - r] = "done"
    /\ ~odd
    /\ buf[r].flat_params_model2 # snap[r].flat_params_model2
    /\ buf[r].flat_params_model2 # buf[r].flat_params_model1

RECURSIVE TotalLen(_, _)
\* The number of queued operations of q over the pairs of ranks in S.
TotalLen(q, S) ==
  IF S = {} THEN 0
  ELSE LET x == CHOOSE y \in S : TRUE IN Len(q[x]) + TotalLen(q, S \ {x})

\* The sends (q = sendq) or receives (q = recvq) in flight.
InFlight(q) == TotalLen(q, Ranks \X Ranks)

\* The event a step of rank r appended to its trace, if it appended one.
Issued(r, names) ==
  /\ Len(trace'[r]) = Len(trace[r]) + 1
  /\ trace'[r][Len(trace'[r])].e \in names

\* C4 as stated: the parameter send and the parameter receive both take
\* flat_params_model2 when odd and flat_params_model1 otherwise; each issues one
\* non-blocking operation and returns its handle without waiting.
C4_Original ==
  \A r \in Ranks : \A k \in 1..Len(trace[r]) :
    trace[r][k].e \in {"isend_params", "irecv_params"} =>
      trace[r][k].buf = (IF odd THEN "flat_params_model2" ELSE "flat_params_model1")

\* C4 amended: the parameter send takes flat_params_model2 when odd and
\* flat_params_model1 otherwise, the parameter receive takes the other one
\* (flat_params_model1 when odd, flat_params_model2 otherwise); each issues exactly
\* one non-blocking operation and returns a pending handle without waiting.
C4_BufferSelection ==
  [][\A r \in Ranks :
       Issued(r, {"isend_params", "irecv_params"}) =>
         LET ev == trace'[r][Len(trace'[r])]
         IN  /\ ev.e = "isend_params" =>
                  /\ ev.buf = (IF odd THEN "flat_params_model2" ELSE "flat_params_model1")
                  /\ InFlight(sendq') = InFlight(sendq) + 1
                  /\ recvq' = recvq
                  /\ sendq'[<<r, ev.peer>>][Len(sendq'[<<r, ev.peer>>])].data
                       = buf[r][ev.buf]
             /\ ev.e = "irecv_params" =>
                  /\ ev.buf = (IF odd THEN "flat_params_model1" ELSE "flat_params_model2")
                  /\ InFlight(recvq') = InFlight(recvq) + 1
                  /\ sendq' = sendq
             /\ req'[r][ev.i].op = (IF ev.e = "isend_params" THEN "send" ELSE "recv")
             /\ ~req'[r][ev.i].done
             /\ pc'[r] # pc[r]
             /\ buf' = buf]_vars

\* A rank has issued its parameter send and its parameter receive of an odd call.
C4_Witness ==
  \E r \in Active :
    /\ odd
    /\ \E k \in 1..Len(trace[r]) :
         trace[r][k].e = "isend_params" /\ trace[r][k].buf = "flat_params_model2"
    /\ \E k \in 1..Len(trace[r]) :
         trace[r][k].e = "irecv_params" /\ trace[r][k].buf = "flat_params_model1"

\* C5: send_recv_grads(odd) adds, element by element, the buffer the partner sent
\* (its flat_grads_model2 when odd, flat_grads_model1 otherwise) to the local target
\* (flat_grads_model1 when odd, flat_grads_model2 otherwise); an all-zero received
\* buffer leaves the target as it was; the buffer sent and both parameter buffers
\* are unchanged.
C5_GradsAccumulated ==
  \A r \in Active :
    LET p == mp_size - 1 - r
        target == IF odd THEN "flat_grads_model1" ELSE "flat_grads_model2"
        sent == IF odd THEN "flat_grads_model2" ELSE "flat_grads_model1"
    IN  pc[r] = "done" =>
          /\ Len(buf[r][target]) = Len(snap[r][target])
          /\ \A k \in 1..Len(buf[r][target]) :
               buf[r][target][k] = snap[r][target][k] + snap[p][sent][k]
          /\ (\A k \in 1..Len(snap[p][sent]) : snap[p][sent][k] = 0) =>
               buf[r][target] = snap[r][target]
          /\ buf[r].flat_grads_recv = snap[p][sent]
          /\ buf[r][sent] = snap[r][sent]
          /\ buf[r].flat_params_model1 = snap[r].flat_params_model1
          /\ buf[r].flat_params_model2 = snap[r].flat_params_model2

\* A rank returned from send_recv_grads with a target that was not zero before and
\* that the received gradients changed.
C5_Witness ==
  \E r \in Active :
    LET target == IF odd THEN "flat_grads_model1" ELSE "flat_grads_model2"
    IN  /\ pc[r] = "done"
        /\ \E k \in 1..Len(snap[r][target]) : snap[r][target][k] > 0
        /\ buf[r][target] # snap[r][target]

\* C6 as stated: the half-based role assignment completes on both ranks, and with
\* the assignment reversed neither rank's waits ever complete.
C6_Original ==
  /\ ~reversed => (AllReturned \/ ENABLED NextParams)
  /\ reversed => \A r \in Active : \A k \in 1..Len(trace[r]) : trace[r][k].e # "wait"

\* C6 amended: the handshake never gets stuck before both ranks have returned,
\* with the half-based role assignment and with the reversed one alike: both
\* operations are issued before either wait, so the order of issue cannot block.
C6_NoDeadlockEitherWay ==
  /\ AllReturned \/ ENABLED NextParams
  /\ \A r \in Active :
       pc[r] = "done" => req[r][1].done /\ req[r][2].done

\* With the assignment reversed, both ranks of a pair have returned and hold the
\* partner's parameters.
C6_Witness ==
  /\ reversed
  /\ AllReturned
  /\ \E r \in Active :
       /\ r < mp_size - 1 - r
       /\ trace[r][3].e = "irecv_params"
       /\ trace[mp_size - 1 - r][3].e = "isend_params"
       /\ buf[r][RecvParamsBuf(odd)] = snap[mp_size - 1 - r][SendParamsBuf(odd)]

\* The calls of a trace with the replica: name, replica, part or handle number.
Calls3(t) == [k \in 1..Len(t) |-> <<t[k].e, t[k].m, t[k].i>>]

\* Where the second phase begins in a trace (past its end if it has not begun).
SecondPhasePos(t) ==
  IF \E k \in 1..Len(t) : t[k].e = "second_replica"
  THEN CHOOSE k \in 1..Len(t) : t[k].e = "second_replica"
  ELSE Len(t) + 1

FirstPhaseOf(t) == SubSeq(t, 1, SecondPhasePos(t) - 1)

SecondPhaseOf(t) == SubSeq(t, SecondPhasePos(t) + 1, Len(t))

\* name(m, 0), ..., name(m, n - 1)
PerPart(name, m, n) == [k \in 1..n |-> <<name, m, k - 1>>]

ExchangeEvents == {"isend_params", "irecv_params", "isend_grads", "irecv_grads"}

\* C7: every send or receive of a flat buffer a rank issues, the edge rank's
\* stand-alone ones included, is issued after a device synchronization that
\* followed the last forward_pass or backward_pass of that rank.
C7_SyncBeforeEveryExchange ==
  \A r \in Ranks : \A k \in 1..Len(trace[r]) :
    trace[r][k].e \in ExchangeEvents => trace[r][k].synced

\* C8: in the first phase the edge rank (first replica's local rank mp_size - 1)
\* issues and waits for a parameter receive, runs forward_pass for parts
\* 0..parts-1, backward_pass for parts 0..parts-1, then issues and waits for a
\* parameter send, and never calls send_recv_params; every other rank runs all
\* forward passes, one send_recv_params, all backward passes, and no stand-alone
\* receive or send.
C8_FirstPhaseOrder ==
  \A r \in Ranks :
    LET m == IF odd THEN 2 ELSE 1
        lr == IF m = 1 THEN r ELSE mp_size - 1 - r
        t == Calls3(FirstPhaseOf(trace[r]))
        head == << <<"run_step_allreduce", m, 0>> >>
        fwd == PerPart("forward_pass", m, parts)
        bwd == PerPart("backward_pass", m, parts)
        edge == head \o << <<"irecv_params", 0, 1>>, <<"wait", 0, 1>> >> \o fwd
                  \o bwd \o << <<"isend_params", 0, 1>>, <<"wait", 0, 1>> >>
        inner(a, b) == head \o fwd
                  \o << <<"send_recv_params", 0, 0>>, <<"synchronize", 0, 0>>,
                        <<a, 0, 1>>, <<b, 0, 2>>, <<"wait", 0, 1>>, <<"wait", 0, 2>> >>
                  \o bwd
    IN  /\ IF lr = mp_size - 1
           THEN IsPrefix(t, edge)
           ELSE \/ IsPrefix(t, inner("isend_params", "irecv_params"))
                \/ IsPrefix(t, inner("irecv_params", "isend_params"))
        /\ SecondPhasePos(trace[r]) <= Len(trace[r]) =>
             Len(t) = 2 * parts + (IF lr = mp_size - 1 THEN 5 ELSE 7)

\* In a group of 4 with 2 micro-parts, the edge rank and an inner rank are past
\* the first phase.
C8_Witness ==
  /\ mp_size = 4 /\ parts = 2 /\ ~odd
  /\ SecondPhasePos(trace[3]) <= Len(trace[3])
  /\ SecondPhasePos(trace[1]) <= Len(trace[1])
  /\ trace[3][2].e = "irecv_params"
  /\ \E k \in 1..Len(trace[1]) : trace[1][k].e = "send_recv_params"

\* The order of the second phase on rank r: the edge rank (second replica's local
\* rank mp_size - 1) sends its gradients after all backward passes, every other
\* rank exchanges and accumulates between the forward and the backward passes.
SecondPhaseInOrder(r) ==
  LET m == IF odd THEN 1 ELSE 2
      lr == IF m = 1 THEN r ELSE mp_size - 1 - r
      t == Calls3(SecondPhaseOf(trace[r]))
      fwd == PerPart("forward_pass", m, parts)
      bwd == PerPart("backward_pass", m, parts)
      edge == << <<"irecv_grads", 0, 1>>, <<"wait", 0, 1>>, <<"accumulate", 0, 0>> >>
                \o fwd \o bwd \o << <<"isend_grads", 0, 1>>, <<"wait", 0, 1>> >>
      inner == fwd
                \o << <<"send_recv_grads", 0, 0>>, <<"synchronize", 0, 0>>,
                      <<"isend_grads", 0, 1>>, <<"irecv_grads", 0, 2>>,
                      <<"wait", 0, 1>>, <<"wait", 0, 2>>, <<"accumulate", 0, 0>> >>
                \o bwd
  IN  /\ IsPrefix(t, IF lr = mp_size - 1 THEN edge ELSE inner)
      /\ pc[r] = "done" => Len(t) = 2 * parts + (IF lr = mp_size - 1 THEN 5 ELSE 7)
      /\ \A k \in 1..Len(trace[r]) :
           trace[r][k].e = "accumulate" =>
             trace[r][k].buf = (IF m = 1 THEN "flat_grads_model1" ELSE "flat_grads_model2")

\* The second phase's events of rank r named e.
SecondPhaseEvents(r, e) ==
  {k \in (SecondPhasePos(trace[r]) + 1)..Len(trace[r]) : trace[r][k].e = e}

\* C9 as stated: the order of the second phase, and the gradients the edge rank
\* sends outward include what it accumulated from its partner earlier in the
\* phase: it sends the buffer it accumulated into.
C9_Original ==
  \A r \in Ranks :
    /\ SecondPhaseInOrder(r)
    /\ (IF odd THEN r ELSE mp_size - 1 - r) = mp_size - 1 =>
         \A k \in SecondPhaseEvents(r, "isend_grads") :
           \A j \in SecondPhaseEvents(r, "accumulate") :
             trace[r][k].buf = trace[r][j].buf

\* C9 amended: the order of the second phase as stated; the edge rank sends the
\* first replica's gradient buffer (flat_grads_model2 when odd, flat_grads_model1
\* otherwise) as it stood when the phase began, while what it accumulated from its
\* partner went into the second replica's buffer and is not part of what it sends.
C9_SecondPhaseOrder ==
  \A r \in Ranks :
    /\ SecondPhaseInOrder(r)
    /\ (IF odd THEN r ELSE mp_size - 1 - r) = mp_size - 1 =>
         \A k \in SecondPhaseEvents(r, "isend_grads") :
           /\ trace[r][k].buf = (IF odd THEN "flat_grads_model2" ELSE "flat_grads_model1")
           /\ trace[r][k].data = snap[r][trace[r][k].buf]
           /\ \A j \in SecondPhaseEvents(r, "accumulate") :
                /\ j < k
                /\ trace[r][j].buf # trace[r][k].buf

\* The edge rank of the second phase has accumulated gradients that were not zero
\* and has sent its own after two backward passes; an inner rank has finished.
C9_Witness ==
  /\ mp_size = 4 /\ parts = 2 /\ ~odd
  /\ pc[0] = "done" /\ pc[2] = "done"
  /\ \E j \in SecondPhaseEvents(0, "accumulate") :
       \E i \in 1..Len(trace[0][j].data) : trace[0][j].data[i] > 0
  /\ SecondPhaseEvents(0, "isend_grads") # {}
  /\ SecondPhaseEvents(2, "accumulate") # {}

RECURSIVE SumUpTo(_, _)
\* F(0) + ... + F(n - 1)
SumUpTo(F(_), n) == IF n = 0 THEN 0 ELSE F(n - 1) + SumUpTo(F, n - 1)

\* C10: run_step_allreduce returns the sum, over both replicas and every
\* micro-part, of the loss and the correct-count forward_pass produced where the
\* replica is at its terminal stage (split_rank == split_size - 1) on this rank,
\* each once; what a replica produced elsewhere adds nothing. Over the group that
\* is one contribution per replica and micro-part: 4 with parts = 2.
C10_ReturnedSums ==
  /\ \A r \in Ranks :
       pc[r] = "done" =>
         LET term(m) == SplitRank(IF m = 1 THEN r ELSE mp_size - 1 - r) = SplitSize - 1
             lossOf(m) == IF term(m)
                          THEN SumUpTo(LAMBDA i : FwdLoss(r, m, i), parts) ELSE 0
             corrOf(m) == IF term(m)
                          THEN SumUpTo(LAMBDA i : FwdCorrect(r, m, i), parts) ELSE 0
         IN  /\ acc[r].loss = lossOf(1) + lossOf(2)
             /\ acc[r].corrects = corrOf(1) + corrOf(2)
  /\ (\A r \in Ranks : pc[r] = "done") =>
       /\ SumUpTo(LAMBDA r : acc[r].loss, mp_size)
            = SumUpTo(LAMBDA i : FwdLoss(mp_size - 1, 1, i), parts)
              + SumUpTo(LAMBDA i : FwdLoss(0, 2, i), parts)
       /\ SumUpTo(LAMBDA r : acc[r].corrects, mp_size)
            = SumUpTo(LAMBDA i : FwdCorrect(mp_size - 1, 1, i), parts)
              + SumUpTo(LAMBDA i : FwdCorrect(0, 2, i), parts)

\* Every rank of a group of 4 has returned from a step of 2 micro-parts: the two
\* terminal ranks return two contributions each, the inner ranks none.
C10_Witness ==
  /\ mp_size = 4 /\ parts = 2
  /\ \A r \in Ranks : pc[r] = "done"
  /\ acc[3].loss = FwdLoss(3, 1, 0) + FwdLoss(3, 1, 1)
  /\ acc[0].loss = FwdLoss(0, 2, 0) + FwdLoss(0, 2, 1)
  /\ acc[1].loss = 0 /\ acc[2].corrects = 0

\* The events of rank r's trace named e.
EventsOf(r, e) == {k \in 1..Len(trace[r]) : trace[r][k].e = e}

FlatBuffers ==
  {"flat_params_model1", "flat_params_model2", "flat_grads_model1", "flat_grads_model2"}

\* C11: in one run_step_allreduce every rank issues exactly one parameter send,
\* one parameter receive, one gradient send and one gradient receive with one
\* accumulation; each flat buffer is written by at most one exchange operation.
C11_OneExchangeEach ==
  \A r \in Ranks :
    /\ \A e \in ExchangeEvents \cup {"accumulate"} :
         /\ Cardinality(EventsOf(r, e)) <= 1
         /\ pc[r] = "done" => Cardinality(EventsOf(r, e)) = 1
    /\ \A j \in EventsOf(r, "accumulate") :
         \E k \in EventsOf(r, "irecv_grads") : k < j
    /\ \A b \in FlatBuffers :
         Cardinality({k \in EventsOf(r, "irecv_params") \cup EventsOf(r, "accumulate") :
                        trace[r][k].buf = b}) <= 1

\* Every rank of a group of 4 has returned; rank 3 was the edge rank of the first
\* phase, rank 0 of the second, ranks 1 and 2 used the combined calls.
C11_Witness ==
  /\ mp_size = 4 /\ ~odd
  /\ \A r \in Ranks : pc[r] = "done"
  /\ EventsOf(3, "send_recv_params") = {} /\ EventsOf(0, "send_recv_grads") = {}
  /\ EventsOf(1, "send_recv_params") # {} /\ EventsOf(1, "send_recv_grads") # {}
  /\ \A r \in Ranks : EventsOf(r, "accumulate") # {}

\* The calls of a sequential step: name, replica, slice.
RunCalls(t) == [k \in 1..Len(t) |-> <<t[k].e, t[k].m, t[k].data>>]

\* Replica 1 on [2jB, (2j+1)B), then replica 2 on [(2j+1)B, (2j+2)B).
PairRuns(j) ==
  << <<"run_step", 1, <<2 * j * batch_size, (2 * j + 1) * batch_size>> >>,
     <<"run_step", 2, <<(2 * j + 1) * batch_size, (2 * j + 2) * batch_size>> >> >>

RECURSIVE LaterPairs(_)
\* The pairs 1..n, in order.
LaterPairs(n) == IF n = 0 THEN <<>> ELSE LaterPairs(n - 1) \o PairRuns(n)

\* C12: run_step runs replica 1 on [0, B), synchronizes the device, runs replica 2
\* on [B, 2B), then for j in 1..replications-1 replica 1 on [2jB, (2j+1)B) and
\* replica 2 on [(2j+1)B, (2j+2)B); it returns the sum of the 2 * replications
\* per-run results.
C12_SequentialStep ==
  \A r \in Ranks :
    LET expected == << PairRuns(0)[1], <<"synchronize", 0, <<>> >>, PairRuns(0)[2] >>
                      \o LaterPairs(replications - 1)
    IN  /\ IsPrefix(RunCalls(trace[r]), expected)
        /\ pc[r] = "done" =>
             /\ RunCalls(trace[r]) = expected
             /\ acc[r].loss =
                  SumUpTo(LAMBDA j : RunLoss(r, 1, 2 * j * batch_size)
                                     + RunLoss(r, 2, (2 * j + 1) * batch_size),
                          replications)
             /\ acc[r].corrects =
                  SumUpTo(LAMBDA j : RunCorrect(r, 1, 2 * j * batch_size)
                                     + RunCorrect(r, 2, (2 * j + 1) * batch_size),
                          replications)

RECURSIVE OffsetOf(_, _)
\* o_k: the element counts of the parameters before the k-th, summed.
OffsetOf(ps, k) == IF k = 1 THEN 0 ELSE OffsetOf(ps, k - 1) + Numel(ps[k - 1])

\* C13: after construction the k-th parameter of a replica aliases the flat index
\* range [o_k, o_k + n_k), o_k the sum of the element counts before it; the
\* ranges are pairwise disjoint and cover [0, size), size the sum of the n_k; the
\* gradient buffer uses the same ranges; the shape is kept; a write at flat index
\* o_k + j is read as element j of parameter k, and the other way round.
C13_Aliasing ==
  pc[0] = "built" =>
    \A m \in {1, 2} :
      LET ps == shapes[0][m]
          a == alias[0]["params"][m]
          size == OffsetOf(ps, Len(ps)) + Numel(ps[Len(ps)])
      IN  /\ Len(a) = Len(ps)
          /\ alias[0]["grads"][m] = a
          /\ Len(buf[0][FlatBufOf("params", m)]) = size
          /\ Len(buf[0][FlatBufOf("grads", m)]) = size
          /\ \A k \in 1..Len(ps) :
               /\ a[k].lo = OffsetOf(ps, k)
               /\ a[k].hi = OffsetOf(ps, k) + Numel(ps[k])
               /\ a[k].shape = ps[k]
          /\ \A k \in 1..Len(ps), l \in 1..Len(ps) :
               k # l => (a[k].hi <= a[l].lo \/ a[l].hi <= a[k].lo)
          /\ \A i \in 0..(size - 1) :
               \E k \in 1..Len(ps) : a[k].lo <= i /\ i < a[k].hi
          /\ Len(trace[0]) > 0 =>
               LET ev == trace[0][Len(trace[0])]
                   kind == ev.data[1]
               IN  /\ (ev.e = "write_param" /\ ev.m = m) =>
                        buf[0][FlatBufOf(kind, m)][OffsetOf(ps, ev.i) + ev.data[2] + 1]
                          = ev.data[3]
                   /\ (ev.e = "write_flat" /\ ev.m = m) =>
                        \A k \in 1..Len(ps) : \A j \in 0..(Numel(ps[k]) - 1) :
                          OffsetOf(ps, k) + j = ev.i =>
                            ReadParam(0, kind, m, k, j) = ev.data[2]
                   /\ (ev.e = "update_model_paramters" /\ ev.m = m) =>
                        /\ buf[0][FlatBufOf("params", m)] = ev.data
                        /\ ModelParameters(0, m) = ev.data
                        /\ \A k \in 1..Len(ps) : \A j \in 0..(Numel(ps[k]) - 1) :
                             ReadParam(0, "params", m, k, j)
                               = ev.data[OffsetOf(ps, k) + j + 1]

\* The spec's example: shapes (3,4) and (5,), 17 elements; a write at flat index 0
\* is read as element [0,0] of the first parameter, and a write at element 0 of
\* the second parameter has landed at flat index 12.
C13_Witness ==
  /\ pc[0] = "built"
  /\ shapes[0][1] = << <<3, 4>>, <<5>> >>
  /\ shapes[0][2] = << <<5>> >>
  /\ Len(buf[0].flat_params_model1) = 17
  /\ Len(trace[0]) = 1
  /\ \/ /\ trace[0][1].e = "update_model_paramters" /\ trace[0][1].m = 1
        /\ trace[0][1].data = [k \in 1..17 |-> k]
        /\ ReadParam(0, "params", 1, 2, 0) = 13
     \/ /\ trace[0][1].e = "write_flat" /\ trace[0][1].i = 0
        /\ trace[0][1].buf = "flat_params_model1"
        /\ ReadParam(0, "params", 1, 1, 0) = 1
     \/ /\ trace[0][1].e = "write_param" /\ trace[0][1].i = 2
        /\ trace[0][1].buf = "flat_grads_model1"
        /\ trace[0][1].data[2] = 0
        /\ buf[0].flat_grads_model1[13] = 1

\* The exchanges of rank r with their phase: TRUE for an event of the first phase.
InFirstPhase(r, k) == k < SecondPhasePos(trace[r])

\* Every exchange of every rank targets mp_size - 1 - r; the pairing is an
\* involution without fixed point whose partners lie in opposite halves.
PartnerIsMirror ==
  \A r \in Ranks : \A k \in 1..Len(trace[r]) :
       trace[r][k].e \in ExchangeEvents \cup {"send_recv_params", "send_recv_grads"} =>
         LET p == trace[r][k].peer
         IN  /\ p = mp_size - 1 - r
             /\ p \in Ranks /\ p # r
             /\ mp_size - 1 - p = r
             /\ (2 * r < mp_size) # (2 * p < mp_size)

\* The stand-alone exchanges of an edge rank: those of a rank that does not call
\* send_recv_params (first phase) or send_recv_grads (second phase).
EdgeExchanges(r) ==
  {k \in 1..Len(trace[r]) :
     /\ trace[r][k].e \in ExchangeEvents
     /\ LET m == IF InFirstPhase(r, k) = odd THEN 2 ELSE 1
        IN  (IF m = 1 THEN r ELSE mp_size - 1 - r) = mp_size - 1}

\* C14 as stated: every exchange targets mp_size - 1 - r, the pairing is an
\* involution across the halves, and the partner of the edge rank is rank 0.
C14_Original ==
  /\ PartnerIsMirror
  /\ \A r \in Ranks : \A k \in EdgeExchanges(r) : trace[r][k].peer = 0

\* C14 amended: every exchange targets mp_size - 1 - r, the pairing is an
\* involution across the halves, and the partner of a phase's edge rank is the
\* rank where that phase's replica has local rank 0: rank 0 for replica 1's edge
\* rank (rank mp_size - 1), rank mp_size - 1 for replica 2's edge rank (rank 0).
C14_PartnerIsMirror ==
  /\ PartnerIsMirror
  /\ \A r \in Ranks : \A k \in EdgeExchanges(r) :
       LET m == IF InFirstPhase(r, k) = odd THEN 2 ELSE 1
       IN  /\ trace[r][k].peer = (IF m = 1 THEN 0 ELSE mp_size - 1)
           /\ r = (IF m = 1 THEN mp_size - 1 ELSE 0)

\* In a group of 4, odd parity, all ranks have returned: rank 0 was the edge rank
\* of the first phase and exchanged with rank 3, rank 3 was the edge rank of the
\* second and exchanged with rank 0, rank 1 exchanged with rank 2.
C14_Witness ==
  /\ mp_size = 4 /\ odd
  /\ \A r \in Ranks : pc[r] = "done"
  /\ \E k \in EdgeExchanges(0) : InFirstPhase(0, k) /\ trace[0][k].peer = 3
  /\ \E k \in EdgeExchanges(3) : ~InFirstPhase(3, k) /\ trace[3][k].peer = 0
  /\ \E k \in EventsOf(1, "isend_grads") : trace[1][k].peer = 2

\* The forward_pass and backward_pass calls of a trace, in order.
Passes(t) ==
  Calls3(SelectSeq(t, LAMBDA ev : ev.e \in {"forward_pass", "backward_pass"}))

\* C15: in each phase backward_pass is invoked once for every part 0..parts-1, in
\* ascending order, after all forward_pass calls of the phase, and for part i it
\* receives what forward_pass of part i returned for the same replica in the same
\* phase.
C15_BackwardOrder ==
  \A r \in Ranks :
    LET m1 == IF odd THEN 2 ELSE 1
        m2 == IF odd THEN 1 ELSE 2
        phase(m) == PerPart("forward_pass", m, parts) \o PerPart("backward_pass", m, parts)
    IN  /\ IsPrefix(Passes(FirstPhaseOf(trace[r])), phase(m1))
        /\ IsPrefix(Passes(SecondPhaseOf(trace[r])), phase(m2))
        /\ SecondPhasePos(trace[r]) <= Len(trace[r]) =>
             Passes(FirstPhaseOf(trace[r])) = phase(m1)
        /\ pc[r] = "done" => Passes(SecondPhaseOf(trace[r])) = phase(m2)
        /\ \A k \in EventsOf(r, "backward_pass") :
             /\ trace[r][k].m = (IF InFirstPhase(r, k) THEN m1 ELSE m2)
             /\ trace[r][k].data = <<trace[r][k].m, trace[r][k].i>>

\* A rank has run both phases with 2 micro-parts: its last backward_pass was of
\* the second replica, part 1, on that replica's forward result of part 1.
C15_Witness ==
  /\ parts = 2 /\ mp_size = 4 /\ odd
  /\ pc[1] = "done"
  /\ Cardinality(EventsOf(1, "backward_pass")) = 4
  /\ \E k \in EventsOf(1, "backward_pass") :
       ~InFirstPhase(1, k) /\ trace[1][k].data = <<1, 1>>

\* C16: when every rank of an even group calls run_step_allreduce with the same
\* odd_iteration, and forward_pass / backward_pass complete and messages are
\* delivered, every wait completes and every rank returns from the step.
C16_StepTerminates == <>(\A r \in Ranks : pc[r] = "done")

\* Every rank of a group of 4 has returned after its last wait, for odd parity
\* and 2 micro-parts, and nothing is left in flight.
C16_Witness ==
  /\ mp_size = 4 /\ parts = 2 /\ odd
  /\ \A r \in Ranks : pc[r] = "done" /\ trace[r][Len(trace[r])].e \in {"wait", "backward_pass"}
  /\ \A p \in Ranks \X Ranks : sendq[p] = <<>> /\ recvq[p] = <<>>

\* C17: in send_recv_grads every rank, of the lower or of the upper half, issues
\* the send first and the receive second and waits on both only afterwards; a
\* paired call on ranks r and mp_size - 1 - r completes on both ranks.
C17_GradsBothSendFirst ==
  /\ \A r \in Active :
       /\ IsPrefix(Calls(trace[r]),
                   << <<"send_recv_grads", 0>>, <<"synchronize", 0>>,
                      <<"isend_grads", 1>>, <<"irecv_grads", 2>>,
                      <<"wait", 1>>, <<"wait", 2>>, <<"accumulate", 0>> >>)
       /\ pc[r] = "done" =>
            /\ Len(trace[r]) = 7
            /\ req[r][1].done /\ req[r][2].done
  /\ AllReturned \/ ENABLED NextGrads

\* For mp_size = 8, ranks 2 (lower half) and 5 (upper half) have both returned
\* from send_recv_grads, each having issued its send before its receive.
C17_Witness ==
  /\ mp_size = 8
  /\ pc[2] = "done" /\ pc[5] = "done"
  /\ trace[2][3].e = "isend_grads" /\ trace[5][3].e = "isend_grads"
  /\ trace[2][4].e = "irecv_grads" /\ trace[5][4].e = "irecv_grads"

\* C18: the four exchange operations of one run_step_allreduce follow the parity
\* passed to the call: the replica executed first is model 2 when odd and model 1
\* otherwise; parameters sent come from its flat parameter buffer and overwrite
\* only the second replica's; gradients sent come from its flat gradient buffer
\* and are added only to the second replica's.
C18_ParityThreaded ==
  \A r \in Ranks :
    Len(trace[r]) > 0 =>
      LET m1 == trace[r][1].m
          m2 == 3 - m1
          pbuf(m) == IF m = 1 THEN "flat_params_model1" ELSE "flat_params_model2"
          gbuf(m) == IF m = 1 THEN "flat_grads_model1" ELSE "flat_grads_model2"
          p == mp_size - 1 - r
          own == SumUpTo(LAMBDA i : GradStep(r, i), parts)
      IN  /\ m1 = (IF odd THEN 2 ELSE 1)
          /\ \A n \in 1..Len(trace[r]) :
               LET ev == trace[r][n]
               IN  /\ ev.e = "forward_pass" =>
                        ev.m = (IF InFirstPhase(r, n) THEN m1 ELSE m2)
                   /\ ev.e = "isend_params" =>
                        ev.buf = pbuf(m1) /\ ev.data = StepBufs(r)[pbuf(m1)]
                   /\ ev.e = "irecv_params" => ev.buf = pbuf(m2)
                   /\ ev.e = "isend_grads" => ev.buf = gbuf(m1)
                   /\ ev.e = "accumulate" => ev.buf = gbuf(m2)
          /\ buf[r][pbuf(m1)] = StepBufs(r)[pbuf(m1)]
          /\ buf[r][pbuf(m2)] \in {StepBufs(r)[pbuf(m2)], StepBufs(p)[pbuf(m1)]}
          /\ pc[r] = "done" =>
               /\ buf[r][pbuf(m2)] = StepBufs(p)[pbuf(m1)]
               /\ buf[r][gbuf(m1)] = Fill(ModelSize(r, m1), own)
               /\ \E j \in EventsOf(r, "accumulate") :
                    buf[r][gbuf(m2)] =
                      [k \in 1..ModelSize(r, m2) |-> own + trace[r][j].data[k]]

\* Odd parity, group of 4: every rank has returned; rank 1 sent flat_params_model2
\* and flat_grads_model2 and received into flat_params_model1 what rank 2 held in
\* its flat_params_model2.
C18_Witness ==
  /\ mp_size = 4 /\ odd
  /\ \A r \in Ranks : pc[r] = "done"
  /\ \E k \in EventsOf(1, "isend_params") : trace[1][k].buf = "flat_params_model2"
  /\ \E k \in EventsOf(1, "isend_grads") : trace[1][k].buf = "flat_grads_model2"
  /\ buf[1].flat_params_model1 = StepBufs(2).flat_params_model2
  /\ buf[1].flat_params_model1 # StepBufs(1).flat_params_model1

\* C19: with one tag and in-order delivery per (sender, receiver) pair, within a
\* step and across consecutive steps of alternating parity, the send a receive is
\* matched with is of the same kind (parameters or gradients) and its buffer has
\* the length of the receiver's buffer.
C19_SameKindSameLength ==
  \A s \in Ranks, d \in Ranks :
    (sendq[<<s, d>>] # <<>> /\ recvq[<<s, d>>] # <<>>) =>
      LET m == Head(sendq[<<s, d>>])
          rc == Head(recvq[<<s, d>>])
      IN  /\ m.kind = rc.kind
          /\ Len(m.data) = Len(buf[d][rc.buf])
          /\ d = mp_size - 1 - s

\* In the second call, of the other parity, a gradient send of rank 0 is about
\* to be matched with the gradient receive of its partner, and in another pair a
\* rank is still in its first call.
C19_Witness ==
  /\ mp_size = 4
  /\ step[0] = 1 /\ step[3] = 1
  /\ sendq[<<0, 3>>] # <<>> /\ recvq[<<0, 3>>] # <<>>
  /\ Head(sendq[<<0, 3>>]).kind = "grads"
  /\ Head(sendq[<<0, 3>>]).buf = SendGradsBuf(~odd)
  /\ \E r \in {1, 2} : step[r] = 0

\* The forward_pass calls of replica m on rank r whose slice holds sample x.
PassesOfSample(r, m, x) ==
  {k \in EventsOf(r, "forward_pass") :
     trace[r][k].m = m /\ trace[r][k].data[1] <= x /\ x < trace[r][k].data[2]}

\* C20: for batch_size >= parts >= 1 the micro-part slices
\* [i * parts_size, (i + 1) * parts_size), parts_size = floor(batch_size / parts),
\* are pairwise disjoint and cover all batch_size samples of each replica's half:
\* every sample of the half is passed to forward_pass exactly once.
C20_SlicesCoverHalf ==
  \A r \in Ranks :
    /\ \A m \in {1, 2} : \A x \in 0..(batch_size - 1) :
         Cardinality(PassesOfSample(r, m, x)) <= 1
    /\ pc[r] = "done" =>
         \A m \in {1, 2} : \A x \in 0..(batch_size - 1) :
           Cardinality(PassesOfSample(r, m, x)) = 1

====
